---- MODULE Spec2Model ----
(***************************************************************************)
(* walk-watcher: the reconciliation store (watcherstore.py), the watcher   *)
(* that drives it (watcher.py) and the metric emitter (watcheremitter.py). *)
(*                                                                         *)
(* The files table is a bag of rows: SQLite keeps one row per INSERT, and  *)
(* it is the UNIQUE(root, filename) constraint together with INSERT OR     *)
(* IGNORE that keeps a key from being stored twice.  The surrogate id      *)
(* column is never read by the program and is left out.  The system table  *)
(* has exactly one row (UNIQUE(database_path), one path per database); its *)
(* last_run and is_running columns are the variables of the same name.     *)
(***************************************************************************)
EXTENDS Bags, FiniteSets, Integers, Sequences, TLC

\* ---------------------------------------------------------------- bounds
MaxTime == 2
MaxNow == 4
MaxRunningAge == 2
MaxWalks == 2
MaxPending == 0

\* seconds of a day, clean_oldest_files
SecondsPerDay == 86400

\* the (root, filename) pairs the scans report
Keys == {<<"r1", "f1">>, <<"r1", "f2">>, <<"r2", "f1">>}
Times == 1..MaxTime
Procs == {1, 2}

VARIABLES
    files,              \* files table: bag of rows
    last_run,           \* system.last_run
    is_running,         \* system.is_running (0 or 1)
    now,                \* int(datetime.now().timestamp())
    max_is_running_age, \* WatcherStore._max_is_running_age
    pc,                 \* per process: position in start_run / the run / stop_run
    rd,                 \* per process: (last_run, is_running) as read by _get_last_run
    began,              \* per process: the time its successful start_run wrote
    overrun,            \* some run crashed or lasted longer than the staleness window
    oldest_file_row_age,\* WatcherStore._oldest_file_row_age (days)
    metric_lines,       \* WatcherEmitter._metric_lines
    wpc,                \* Watcher.walk: the statement it has reached
    scan,               \* Watcher.walk: files and empty_dirs of _walk_directories
    failed,             \* Watcher.walk: an exception left the body of the with
    outcome,            \* how the last walk() call ended
    walks,              \* walk() calls started
    op,                 \* the operation that produced this state
    saved,              \* the snapshot handed to the last save_files call
    repeat,             \* the last save_files call repeated the one before it
    before,             \* the files table as the last store call found it
    result,             \* what the last query of the store returned
    emit_telegraf,      \* WatcherConfig.emit_telegraf
    epc,                \* WatcherEmitter.emit: the statement it has reached
    batch_size,         \* WatcherEmitter.emit: its batch_size argument
    lines,              \* WatcherEmitter.emit: the batch _get_lines returned
    answers,            \* what the receiver did with each POST of this emit()
    log_errors,         \* logger.error calls of the emitter
    eoutcome,           \* how the last emit() call ended
    emit_n,             \* queue length when the last emit() call began
    enqueued,           \* the arguments of every add_line call, in call order
    handed,             \* every line handed to the sinks, in order
    calls,              \* per sink method: the batches this emit() called it with
    posted,             \* the request bodies this emit() has POSTed
    max_emit_line_count,\* WatcherConfig.max_emit_line_count
    ecaller,            \* who called the last emit(): a test or Watcher.emit
    collect_interval,   \* WatcherConfig.collect_interval
    emit_interval,      \* WatcherConfig.emit_interval
    rpc,                \* run_once / run_loop: the statement it has reached
    next_walk,          \* run_loop: next_walk
    next_emit,          \* run_loop: next_emit
    ticks,              \* run_loop: passes of the while loop begun
    rlog,               \* the walk() and emit() calls of the runner, in order
    root_directories,   \* WatcherConfig.root_directories
    exclude_file_pattern,      \* WatcherConfig.exclude_file_pattern
    exclude_directory_pattern, \* WatcherConfig.exclude_directory_pattern
    treat_files_as_new, \* WatcherConfig.treat_files_as_new
    disk                \* what os.walk and the stat calls of the last scan met

runVars == <<last_run, is_running, now, max_is_running_age, pc, rd, began, overrun>>
walkVars == <<oldest_file_row_age, metric_lines, wpc, scan, failed, outcome, walks>>
histVars == <<op, saved, repeat>>
callVars == <<before, result>>
emitVars == <<emit_telegraf, epc, batch_size, lines, answers, log_errors, eoutcome,
              emit_n, enqueued, handed, calls, posted, max_emit_line_count,
              ecaller>>
loopVars == <<collect_interval, emit_interval, rpc, next_walk, next_emit, ticks,
              rlog>>
confVars == <<root_directories, exclude_file_pattern, exclude_directory_pattern,
              treat_files_as_new>>
vars == <<files, last_run, is_running, now, max_is_running_age, pc, rd, began,
          overrun, oldest_file_row_age, metric_lines, wpc, scan, failed, outcome,
          walks, op, saved, repeat, before, result, emit_telegraf, epc,
          batch_size, lines, answers, log_errors, eoutcome, emit_n, enqueued,
          handed, calls, posted, max_emit_line_count, ecaller,
          collect_interval, emit_interval, rpc, next_walk, next_emit, ticks,
          rlog, root_directories, exclude_file_pattern,
          exclude_directory_pattern, treat_files_as_new, disk>>

\* ------------------------------------------------------------ data model
\* watchermodel.File as the tests and save_files build it
File(root, filename, lastseen) ==
    [root |-> root, filename |-> filename, last_seen |-> lastseen,
     first_seen |-> 0, age_seconds |-> 0, removed |-> 0]

\* a row of the files table (id left out)
Row(root, filename, first, last, age, rem) ==
    [root |-> root, filename |-> filename, first_seen |-> first,
     last_seen |-> last, age_seconds |-> age, removed |-> rem]

KeyOf(r) == <<r.root, r.filename>>

Rows(table) == BagToSet(table)

\* ------------------------------------------------------------- save_files
\* slip: the marking statement is left out
_mark_all_removed_skipped(table) == table

\* slip: DELETE FROM files WHERE removed = 0 in place of the UPDATE
_mark_all_removed_deleting(table) ==
    [r \in {q \in Rows(table) : q.removed # 0} |-> table[r]]

\* UPDATE files SET removed = 1 WHERE removed = 0
_mark_all_removed(table) ==
    BagOfAll(LAMBDA r : IF r.removed = 0 THEN [r EXCEPT !.removed = 1] ELSE r,
             table)

\* slip: a row marked removed is stored anew when its file is seen again
update_one_seen_anew(table, file) ==
    BagOfAll(LAMBDA r :
                 IF r.root = file.root /\ r.filename = file.filename
                 THEN [r EXCEPT !.last_seen = file.last_seen,
                                !.removed = 0,
                                !.first_seen = IF r.removed = 1 THEN file.last_seen
                                               ELSE r.first_seen,
                                !.age_seconds = IF r.removed = 1 THEN 0
                                                ELSE file.last_seen - r.first_seen]
                 ELSE r,
             table)

\* slip: the age is taken from the stored last_seen, not from first_seen
update_one_age_from_last_seen(table, file) ==
    BagOfAll(LAMBDA r :
                 IF r.root = file.root /\ r.filename = file.filename
                 THEN [r EXCEPT !.last_seen = file.last_seen,
                                !.removed = 0,
                                !.age_seconds = file.last_seen - r.last_seen]
                 ELSE r,
             table)

\* one statement of the executemany of _update_files
update_one(table, file) ==
    BagOfAll(LAMBDA r :
                 IF r.root = file.root /\ r.filename = file.filename
                 THEN [r EXCEPT !.last_seen = file.last_seen,
                                !.removed = 0,
                                !.age_seconds = file.last_seen - r.first_seen]
                 ELSE r,
             table)

RECURSIVE _update_files(_, _)
_update_files(table, fs) ==
    IF fs = <<>> THEN table
    ELSE _update_files(update_one(table, Head(fs)), Tail(fs))

\* slip: plain INSERT on a table without the UNIQUE constraint
insert_one_plain(table, file) ==
    table (+) SetToBag({Row(file.root, file.filename, file.last_seen,
                            file.last_seen, 0, 0)})

\* one statement of the executemany of _insert_files: INSERT OR IGNORE skips
\* the row when UNIQUE(root, filename) would be violated
insert_one(table, file) ==
    IF \E r \in Rows(table) : r.root = file.root /\ r.filename = file.filename
    THEN table
    ELSE table (+) SetToBag({Row(file.root, file.filename, file.last_seen,
                                 file.last_seen, 0, 0)})

\* slip: every file of the snapshot is inserted, stored already or not
RECURSIVE _insert_files_unchecked(_, _)
_insert_files_unchecked(table, fs) ==
    IF fs = <<>> THEN table
    ELSE _insert_files_unchecked(insert_one_plain(table, Head(fs)), Tail(fs))

RECURSIVE _insert_files(_, _)
_insert_files(table, fs) ==
    IF fs = <<>> THEN table
    ELSE _insert_files(insert_one(table, Head(fs)), Tail(fs))

save_files(table, fs) ==
    _insert_files(_update_files(_mark_all_removed(table), fs), fs)

\* ---------------------------------------------------------------- inputs
FileValues == {File(k[1], k[2], t) : k \in Keys, t \in Times}

\* what a scan hands to save_files: no file, one file, two files (the same
\* key twice when configured roots overlap, each with the time of its own
\* _build_file_models call), or every file of the tree at one time
FullScan(t) ==
    <<File("r1", "f1", t), File("r1", "f2", t), File("r2", "f1", t)>>

Snapshots ==
    {<<>>} \cup {<<f>> : f \in FileValues}
           \cup {<<f, g>> : f \in FileValues, g \in FileValues}
           \cup {FullScan(t) : t \in Times}

SnapshotKeys(fs) == {KeyOf(fs[i]) : i \in DOMAIN fs}

\* --------------------------------------------------- the store on its own
InitRun ==
    /\ now = 1
    /\ last_run = 1
    /\ is_running = 0
    /\ max_is_running_age \in 1..MaxRunningAge
    /\ pc = [p \in Procs |-> "idle"]
    /\ rd = [p \in Procs |-> <<0, 0>>]
    /\ began = [p \in Procs |-> 0]
    /\ overrun = FALSE

\* WatcherConfig fallbacks
DefaultMaxEmitLineCount == 500
DefaultCollectInterval == 10
DefaultEmitInterval == 60

\* the methods of WatcherEmitter that take a batch
Sinks == {"stdout", "file", "telegraf", "oneagent"}

\* WatcherEmitter.__init__, and no emit() call made yet
InitEmit ==
    /\ metric_lines = <<>>
    /\ epc = "idle"
    /\ batch_size = 0
    /\ lines = <<>>
    /\ answers = <<>>
    /\ log_errors = 0
    /\ eoutcome = "none"
    /\ emit_n = 0
    /\ enqueued = <<>>
    /\ handed = <<>>
    /\ calls = [s \in Sinks |-> <<>>]
    /\ posted = <<>>
    /\ ecaller = "none"

InitWalk ==
    /\ InitEmit
    /\ emit_telegraf = FALSE
    /\ max_emit_line_count = DefaultMaxEmitLineCount
    /\ wpc = "idle"
    /\ scan = [files |-> <<>>, empty_dirs |-> <<>>]
    /\ failed = FALSE
    /\ outcome = "none"
    /\ walks = 0

\* no runner has been started
InitLoop ==
    /\ collect_interval = DefaultCollectInterval
    /\ emit_interval = DefaultEmitInterval
    /\ rpc = "idle"
    /\ next_walk = 0
    /\ next_emit = 0
    /\ ticks = 0
    /\ rlog = <<>>

\* the directories of the model in the order SQLite sorts them
RootOrder == <<"q", "q/in", "q/old", "r1", "r2">>

\* exclude pattern None: no exclude line is configured
NoPattern == <<>>

\* the disk of the two roots r1 and r2 with the files present
DiskOf(present) ==
    [walk |-> [r \in {"r1", "r2"} |-> <<r>>],
     files |-> [r \in {"r1", "r2"} |->
                   SelectSeq(<<"f1", "f2">>, LAMBDA f : <<r, f>> \in present)],
     gone |-> {}, ctime |-> 0]

\* the configuration of the two roots r1 and r2 with no exclude lines; no
\* scan has been made
InitConf ==
    /\ root_directories = <<"r1", "r2">>
    /\ exclude_file_pattern = NoPattern
    /\ exclude_directory_pattern = NoPattern
    /\ treat_files_as_new = FALSE
    /\ disk = DiskOf({})

InitHist ==
    /\ op = "init"
    /\ saved = <<>>
    /\ repeat = FALSE
    /\ before = EmptyBag
    /\ result = <<>>

InitStore ==
    /\ files = EmptyBag
    /\ InitRun
    /\ max_is_running_age = 1
    /\ oldest_file_row_age = 0
    /\ InitWalk
    /\ InitHist
    /\ InitLoop
    /\ InitConf

SaveFiles(fs) ==
    /\ files' = save_files(files, fs)
    /\ op' = "save_files"
    /\ saved' = fs
    /\ repeat' = (op = "save_files" /\ saved = fs)
    /\ UNCHANGED <<runVars, walkVars, callVars, emitVars, loopVars, confVars, disk>>

NextStore == \E fs \in Snapshots : SaveFiles(fs)

SpecStore == InitStore /\ [][NextStore]_vars

\* ------------------------------------------------- claims on save_files
TableKeys(table) == {KeyOf(r) : r \in Rows(table)}

\* observation times a snapshot carries for a key, first and last listed
FirstTimeIn(fs, k) ==
    fs[CHOOSE i \in DOMAIN fs :
           KeyOf(fs[i]) = k /\ \A j \in 1..(i - 1) : KeyOf(fs[j]) # k].last_seen

LastTimeIn(fs, k) ==
    fs[CHOOSE i \in DOMAIN fs :
           KeyOf(fs[i]) = k /\ \A j \in (i + 1)..Len(fs) : KeyOf(fs[j]) # k].last_seen

\* no key is listed with two different observation times
SingleTimed(fs) ==
    \A i, j \in DOMAIN fs :
        KeyOf(fs[i]) = KeyOf(fs[j]) => fs[i].last_seen = fs[j].last_seen

\* C1 as claimed: after save_files(S) a row has removed=0 exactly when its key
\* is in S, and every entry of S finds its row with removed=0 and last_seen
\* equal to the entry's observation time.
C1_AsClaimed ==
    op = "save_files" =>
        /\ \A r \in Rows(files) : (r.removed = 0) <=> (KeyOf(r) \in SnapshotKeys(saved))
        /\ \A i \in DOMAIN saved :
               \E r \in Rows(files) :
                   /\ KeyOf(r) = KeyOf(saved[i])
                   /\ r.removed = 0
                   /\ r.last_seen = saved[i].last_seen

\* C1 amended: after save_files(S) a row has removed=0 exactly when its key is
\* in S; the row of every key of S has removed=0 and last_seen equal to an
\* observation time S carries for the key (the last listed one for a row that
\* was stored before the call, the first listed one for a row the call
\* inserts); every row stored before and absent from S has removed=1.
C1_SaveFilesMarks ==
    [][op' = "save_files" =>
        /\ \A r \in Rows(files') :
               (r.removed = 0) <=> (KeyOf(r) \in SnapshotKeys(saved'))
        /\ \A k \in SnapshotKeys(saved') :
               \E r \in Rows(files') :
                   /\ KeyOf(r) = k
                   /\ r.removed = 0
                   /\ r.last_seen = IF k \in TableKeys(files)
                                    THEN LastTimeIn(saved', k)
                                    ELSE FirstTimeIn(saved', k)
        /\ \A r \in Rows(files) :
               KeyOf(r) \notin SnapshotKeys(saved') =>
                   \E q \in Rows(files') : KeyOf(q) = KeyOf(r) /\ q.removed = 1
    ]_vars

\* a call that re-observed one stored file, inserted none and left another
\* stored file unobserved
C1_Witness ==
    /\ op = "save_files"
    /\ Len(saved) = 1
    /\ \E r \in Rows(files) : r.removed = 0 /\ r.age_seconds > 0
    /\ \E r \in Rows(files) : r.removed = 1

\* C2: save_files never deletes a row: the stored keys after save_files(S) are
\* the keys before united with the keys of S, and save_files([]) keeps every
\* row and leaves all of them removed=1.
C2_NeverDeletes ==
    [][op' = "save_files" =>
        /\ TableKeys(files') = TableKeys(files) \cup SnapshotKeys(saved')
        /\ BagCardinality(files') >= BagCardinality(files)
        /\ saved' = <<>> =>
               /\ BagCardinality(files') = BagCardinality(files)
               /\ \A r \in Rows(files') : r.removed = 1
    ]_vars

\* an empty snapshot saved over a store that holds all three files
C2_Witness ==
    /\ op = "save_files"
    /\ saved = <<>>
    /\ BagCardinality(files) = 3

\* C3: every stored row has age_seconds = last_seen - first_seen.
C3_AgeIsLastMinusFirst ==
    \A r \in Rows(files) : r.age_seconds = r.last_seen - r.first_seen

\* a re-observed row that has aged, next to an unobserved row of age 0
C3_Witness ==
    /\ \E r \in Rows(files) : r.removed = 0 /\ r.age_seconds > 0
    /\ \E r \in Rows(files) : r.removed = 1 /\ r.age_seconds = 0

\* C4 as claimed: save_files(S) called twice in a row leaves the rows of the
\* first call unchanged, for every snapshot S.
C4_AsClaimed == [][repeat' => files' = files]_vars

\* the fields the second of two equal calls may not change for any snapshot
SameButTimes(t1, t2) ==
    /\ BagCardinality(t1) = BagCardinality(t2)
    /\ {<<KeyOf(r), r.first_seen, r.removed>> : r \in Rows(t1)}
           = {<<KeyOf(r), r.first_seen, r.removed>> : r \in Rows(t2)}

\* C4 amended: save_files(S) called twice in a row yields the same keys, row
\* count, first_seen and removed values as calling it once, for every S; the
\* last_seen and age_seconds values are the same too when S lists no key with
\* two different observation times.
C4_Idempotent ==
    [][repeat' =>
        /\ SameButTimes(files, files')
        /\ SingleTimed(saved') => files' = files
    ]_vars

\* the same non-empty snapshot saved twice over a store with older rows
C4_Witness ==
    /\ repeat
    /\ saved # <<>>
    /\ SingleTimed(saved)
    /\ \E r \in Rows(files) : r.removed = 0 /\ r.age_seconds # 0
    /\ \E r \in Rows(files) : r.removed = 1

\* C5: at most one row per (root, filename), also after a snapshot that lists
\* a key more than once.
C5_KeyUnique ==
    \A r \in Rows(files) :
        /\ CopiesIn(r, files) = 1
        /\ \A q \in Rows(files) : KeyOf(q) = KeyOf(r) => q = r

\* a snapshot listing one key twice has been saved
C5_Witness ==
    /\ op = "save_files"
    /\ Len(saved) = 2
    /\ KeyOf(saved[1]) = KeyOf(saved[2])
    /\ saved[1].last_seen # saved[2].last_seen
    /\ \E r \in Rows(files) : KeyOf(r) = KeyOf(saved[1])

\* C6 as claimed: every stored row has first_seen <= last_seen and
\* age_seconds >= 0, whatever observation times the snapshots carry.
C6_AsClaimed ==
    \A r \in Rows(files) : r.first_seen <= r.last_seen /\ r.age_seconds >= 0

\* ------------------------------------------------- start_run and stop_run
\* Two watcher processes, each with its own connection to one database file.
\* SQLite runs each statement atomically; start_run is a SELECT, two reads of
\* the clock and an UPDATE, and the other process may run between them.

\* slip: <= in place of < in the staleness test
IsStale_inclusive(lastrun, t, age) == lastrun <= t - age

\* slip: the staleness test is left out
IsStale_never(lastrun, t, age) == FALSE

\* last_run < int(datetime.now().timestamp()) - self._max_is_running_age
IsStale(lastrun, t, age) == lastrun < t - age

\* last_run, is_running = self._get_last_run()
StartRead(p) ==
    /\ pc[p] = "idle"
    /\ rd' = [rd EXCEPT ![p] = <<last_run, is_running>>]
    /\ pc' = [pc EXCEPT ![p] = "read"]
    /\ UNCHANGED <<files, last_run, is_running, now, max_is_running_age, began,
                   overrun, walkVars, histVars,
                   callVars, emitVars, loopVars, confVars, disk>>

\* the two ifs of start_run: a stale flag is ignored, a live one raises
StartCheck(p) ==
    /\ pc[p] = "read"
    /\ LET running == IF IsStale(rd[p][1], now, max_is_running_age)
                      THEN 0 ELSE rd[p][2]
       IN  pc' = [pc EXCEPT ![p] = IF running # 0 THEN "raised" ELSE "write"]
    /\ UNCHANGED <<files, last_run, is_running, now, max_is_running_age, rd,
                   began, overrun, walkVars, histVars,
                   callVars, emitVars, loopVars, confVars, disk>>

\* UPDATE system SET is_running = 1, last_run = now
StartWrite(p) ==
    /\ pc[p] = "write"
    /\ is_running' = 1
    /\ last_run' = now
    /\ began' = [began EXCEPT ![p] = now]
    /\ pc' = [pc EXCEPT ![p] = "running"]
    /\ UNCHANGED <<files, now, max_is_running_age, rd, overrun, walkVars, histVars,
                   callVars, emitVars, loopVars, confVars, disk>>

\* UPDATE system SET is_running = 0
stop_run(p) ==
    /\ pc[p] = "running"
    /\ is_running' = 0
    /\ pc' = [pc EXCEPT ![p] = "idle"]
    /\ UNCHANGED <<files, last_run, now, max_is_running_age, rd, began,
                   overrun, walkVars, histVars,
                   callVars, emitVars, loopVars, confVars, disk>>

\* the caller of a start_run that raised goes on and may call again
Recover(p) ==
    /\ pc[p] = "raised"
    /\ pc' = [pc EXCEPT ![p] = "idle"]
    /\ UNCHANGED <<files, last_run, is_running, now, max_is_running_age, rd,
                   began, overrun, walkVars, histVars,
                   callVars, emitVars, loopVars, confVars, disk>>

\* the process dies during its run: stop_run is never called
Crash(p) ==
    /\ pc[p] = "running"
    /\ pc' = [pc EXCEPT ![p] = "crashed"]
    /\ overrun' = TRUE
    /\ UNCHANGED <<files, last_run, is_running, now, max_is_running_age, rd,
                   began, walkVars, histVars,
                   callVars, emitVars, loopVars, confVars, disk>>

\* one second passes
Tick ==
    /\ now < MaxNow
    /\ now' = now + 1
    /\ overrun' = (overrun \/ \E p \in Procs :
                                  /\ pc[p] = "running"
                                  /\ now + 1 - began[p] > max_is_running_age)
    /\ UNCHANGED <<files, last_run, is_running, max_is_running_age, pc, rd,
                   began, walkVars, histVars,
                   callVars, emitVars, loopVars, confVars, disk>>

InitRunSpec ==
    /\ files = EmptyBag
    /\ InitRun
    /\ oldest_file_row_age = 0
    /\ InitWalk
    /\ InitHist
    /\ InitLoop
    /\ InitConf

NextRun ==
    \/ \E p \in Procs : StartRead(p)
    \/ \E p \in Procs : StartCheck(p)
    \/ \E p \in Procs : StartWrite(p)
    \/ \E p \in Procs : stop_run(p)
    \/ \E p \in Procs : Recover(p)
    \/ \E p \in Procs : Crash(p)
    \/ Tick

SpecRun == InitRunSpec /\ [][NextRun]_vars

\* -------------------------------------------------- claims on the run flag
\* C7: start_run that reads is_running true with now - last_run <=
\* max_is_running_age raises and writes nothing, the boundary now - last_run =
\* max_is_running_age included.
C7_RaisesWithinWindow ==
    [][\A p \in Procs :
          (/\ pc[p] = "read"
           /\ pc'[p] # "read"
           /\ rd[p][2] = 1
           /\ now - rd[p][1] <= max_is_running_age)
          => /\ pc'[p] = "raised"
             /\ is_running' = is_running
             /\ last_run' = last_run
    ]_vars

\* a start_run raised exactly max_is_running_age seconds after the last run,
\* with the flag still set and no stop_run since
C7_Witness ==
    \E p \in Procs :
        /\ pc[p] = "raised"
        /\ is_running = 1
        /\ rd[p] = <<last_run, 1>>
        /\ now - last_run = max_is_running_age

\* C8: a flag left set does not wedge the store: start_run that reads
\* is_running true with now - last_run > max_is_running_age does not raise, and
\* its write sets is_running = 1 and last_run = now.
C8_StaleFlagIgnored ==
    [][\A p \in Procs :
          /\ (/\ pc[p] = "read"
              /\ pc'[p] # "read"
              /\ rd[p][2] = 1
              /\ now - rd[p][1] > max_is_running_age)
             => pc'[p] = "write"
          /\ (pc[p] = "write" /\ pc'[p] # "write")
             => /\ pc'[p] = "running"
                /\ is_running' = 1
                /\ last_run' = now
    ]_vars

\* one process crashed with the flag set, and the other has started a run
\* after the window had passed
C8_Witness ==
    \E p, q \in Procs :
        /\ pc[p] = "crashed"
        /\ pc[q] = "running"
        /\ began[q] - began[p] > max_is_running_age
        /\ is_running = 1
        /\ last_run = began[q]

\* C9 as claimed: when no run crashes or outlasts the staleness window, the
\* two processes are never both between a successful start_run and their own
\* stop_run.
C9_AsClaimed ==
    ~overrun => ~(\A p \in Procs : pc[p] = "running")

\* ---------------------------------------------------------- Watcher.walk
\* One watcher process (the Watcher docstring: one instance per database).
\* The clock is read between walks; a walk takes no model time.

\* watchermodel.Directory; the callers pass its fields by position:
\* Directory(*row) in get_directories, Directory(dirpath, 0, 0) in the scan
Directory(root, lastseen, count) ==
    [root |-> root, last_seen |-> lastseen, file_count |-> count]

\* directory.size_bytes as Watcher reads it: no class under src declares the
\* attribute; sizes are not tracked (the query selects the constant 0 and the
\* scan builds its markers with 0)
size_bytes(directory) == 0

\* slip: WHERE removed = 0 is left out
LiveRows_all(table) == Rows(table)

\* WHERE removed = 0
LiveRows(table) == {r \in Rows(table) : r.removed = 0}

RECURSIVE SumCopies(_, _)
SumCopies(table, rs) ==
    IF rs = {} THEN 0
    ELSE LET r == CHOOSE x \in rs : TRUE
         IN  CopiesIn(r, table) + SumCopies(table, rs \ {r})

\* SELECT root, COUNT(root), 0 FROM files WHERE removed = 0 GROUP BY root
\* (groups come out in the order of the sort that forms them), then
\* Directory(*row): COUNT(root) is passed as last_seen, the 0 as file_count
get_directories(table) ==
    LET present == SelectSeq(RootOrder,
                             LAMBDA d : \E r \in LiveRows(table) : r.root = d)
    IN  [i \in DOMAIN present |->
            Directory(present[i],
                      SumCopies(table, {r \in LiveRows(table) : r.root = present[i]}),
                      0)]

\* the rows ROW_NUMBER() may number 1 in the partition of a root
OldestOf(table, root) ==
    {r \in LiveRows(table) :
        /\ r.root = root
        /\ \A q \in LiveRows(table) : q.root = root => q.age_seconds <= r.age_seconds}

\* File(*row) for row = (root, filename, first_seen, last_seen, age_seconds):
\* the dataclass takes its third argument as last_seen, its fourth as first_seen
FileOfRow(r) ==
    [root |-> r.root, filename |-> r.filename, last_seen |-> r.first_seen,
     first_seen |-> r.last_seen, age_seconds |-> r.age_seconds, removed |-> 0]

\* the lists get_oldest_files may return: one rn = 1 row per root with live
\* rows, ORDER BY age_seconds DESC; ties are left to SQLite
get_oldest_files(table) ==
    LET roots == {r.root : r \in LiveRows(table)}
        n == Cardinality(roots)
    IN  {q \in [1..n -> LiveRows(table)] :
            /\ \A i \in 1..n : q[i] \in OldestOf(table, q[i].root)
            /\ \A i, j \in 1..n : i < j => /\ q[i].root # q[j].root
                                           /\ q[i].age_seconds >= q[j].age_seconds}

\* slip: >= in place of > in the DELETE
clean_oldest_files_inclusive(table, days) ==
    [r \in {q \in Rows(table) : ~(q.age_seconds >= days * SecondsPerDay)} |-> table[r]]

\* DELETE FROM files WHERE age_seconds > max_age
clean_oldest_files(table, days) ==
    [r \in {q \in Rows(table) : ~(q.age_seconds > days * SecondsPerDay)} |-> table[r]]

\* WatcherConfig.metric_name and WatcherConfig.dimensions with no [dimensions]
\* section
ConfigMetricName == "walk_watcher"
ConfigDimensions == ""

\* slip: the timestamp is stored in seconds as given
add_line_seconds(queue, name, dims, gauges, timestamp, t) ==
    Append(queue, [metric_name |-> name, dimensions |-> dims,
                   guage_values |-> gauges,
                   timestamp |-> IF timestamp # 0 THEN timestamp ELSE t])

\* WatcherEmitter.add_line
add_line(queue, name, dims, gauges, timestamp, t) ==
    Append(queue, [metric_name |-> name, dimensions |-> dims,
                   guage_values |-> gauges,
                   timestamp |-> (IF timestamp # 0 THEN timestamp ELSE t) * 1000])

RECURSIVE AddDirectoryLines(_, _, _, _)
AddDirectoryLines(queue, dirs, gauge, t) ==
    IF dirs = <<>> THEN queue
    ELSE AddDirectoryLines(
             add_line(queue, ConfigMetricName,
                      <<ConfigDimensions, "root=" \o Head(dirs).root>>,
                      <<gauge \o "=" \o
                            ToString(IF gauge = "directory.file.count"
                                     THEN Head(dirs).file_count
                                     ELSE size_bytes(Head(dirs)))>>,
                      0, t),
             Tail(dirs), gauge, t)

\* the model's root names hold only characters _sanitize_directory_path keeps
_add_directory_file_count_lines(queue, table, empty_dirs, t) ==
    AddDirectoryLines(queue, get_directories(table) \o empty_dirs,
                      "directory.file.count", t)

_add_directory_size_lines(queue, table, empty_dirs, t) ==
    AddDirectoryLines(queue, get_directories(table) \o empty_dirs,
                      "directory.size.bytes", t)

RECURSIVE _add_file_lines(_, _, _)
_add_file_lines(queue, oldest, t) ==
    IF oldest = <<>> THEN queue
    ELSE _add_file_lines(
             add_line(queue, ConfigMetricName,
                      <<ConfigDimensions, "root=" \o Head(oldest).root>>,
                      <<"oldest.file.seconds=" \o ToString(Head(oldest).age_seconds)>>,
                      0, t),
             Tail(oldest), t)

\* ------------------------------------------------- the scan of the disk
\* A disk is what one scan meets: walk[root] lists the directories os.walk
\* yields for a root, top down; files[dirpath] is the filenames entry of a
\* directory; gone holds the listed files that no longer exist when their
\* metadata is read.

\* A pattern is the alternatives of the regular expression, each a sequence
\* of atoms: a literal character, "." or "$", with or without "*".
Lit(c) == [kind |-> "lit", ch |-> c, star |-> FALSE]
AnyStar == [kind |-> "any", ch |-> ".", star |-> TRUE]
AtEnd == [kind |-> "end", ch |-> "$", star |-> FALSE]

\* the characters of the names that are matched against a pattern
Spell(name) ==
    CASE name = "keep.txt" -> <<"k", "e", "e", "p", ".", "t", "x", "t">>
      [] name = "skip_me.txt" ->
             <<"s", "k", "i", "p", "_", "m", "e", ".", "t", "x", "t">>
      [] name = "unskip_x" -> <<"u", "n", "s", "k", "i", "p", "_", "x">>
      [] name = "q" -> <<"q">>
      [] name = "q/in" -> <<"q", "/", "i", "n">>
      [] name = "q/old" -> <<"q", "/", "o", "l", "d">>

AtomMatches(atom, c) == atom.kind = "any" \/ (atom.kind = "lit" /\ atom.ch = c)

\* the atoms of an alternative match a prefix of text
RECURSIVE match_here(_, _)
match_here(atoms, text) ==
    IF atoms = <<>> THEN TRUE
    ELSE IF Head(atoms).star
    THEN \E n \in 0..Len(text) :
            /\ \A j \in 1..n : AtomMatches(Head(atoms), text[j])
            /\ match_here(Tail(atoms), SubSeq(text, n + 1, Len(text)))
    ELSE IF Head(atoms).kind = "end"
    THEN text = <<>> /\ match_here(Tail(atoms), text)
    ELSE /\ text # <<>>
         /\ AtomMatches(Head(atoms), Head(text))
         /\ match_here(Tail(atoms), Tail(text))

\* slip: re.match, the pattern is tried at the start of the text only
re_match(ptn, text) == \E a \in DOMAIN ptn : match_here(ptn[a], text)

\* re.search(ptn, text): some alternative matches at some position
re_search(ptn, text) ==
    \E a \in DOMAIN ptn : \E n \in 0..Len(text) :
        match_here(ptn[a], SubSeq(text, n + 1, Len(text)))

\* ptn and re.search(ptn, filename)
_is_ignored_filename(ptn, filename) ==
    ptn # NoPattern /\ re_search(ptn, Spell(filename))

\* ptn and re.search(ptn, dirpath)
_is_ignored_directory(ptn, dirpath) ==
    ptn # NoPattern /\ re_search(ptn, Spell(dirpath))

\* the creation time of the file when treat_files_as_new is set, else the
\* time of the scan
_get_first_seen(ctime, t) == IF treat_files_as_new THEN ctime ELSE t

\* slip: the loop over the filenames ends at the first file that is gone
RECURSIVE _build_file_models_stopping(_, _, _, _, _, _)
_build_file_models_stopping(dirpath, filenames, gone, ctime, fptn, t) ==
    IF filenames = <<>> THEN <<>>
    ELSE IF _is_ignored_filename(fptn, Head(filenames))
    THEN _build_file_models_stopping(dirpath, Tail(filenames), gone, ctime, fptn, t)
    ELSE IF <<dirpath, Head(filenames)>> \in gone
    THEN <<>>
    ELSE <<[File(dirpath, Head(filenames), t) EXCEPT !.first_seen = _get_first_seen(ctime, t)]>>
            \o _build_file_models_stopping(dirpath, Tail(filenames), gone, ctime, fptn, t)

\* _build_file_models: an ignored filename is skipped; FileNotFoundError of
\* the ctime or size read is caught and the file skipped
RECURSIVE _build_file_models(_, _, _, _, _, _)
_build_file_models(dirpath, filenames, gone, ctime, fptn, t) ==
    IF filenames = <<>> THEN <<>>
    ELSE IF _is_ignored_filename(fptn, Head(filenames))
    THEN _build_file_models(dirpath, Tail(filenames), gone, ctime, fptn, t)
    ELSE IF <<dirpath, Head(filenames)>> \in gone
    THEN _build_file_models(dirpath, Tail(filenames), gone, ctime, fptn, t)
    ELSE <<[File(dirpath, Head(filenames), t) EXCEPT !.first_seen = _get_first_seen(ctime, t)]>>
            \o _build_file_models(dirpath, Tail(filenames), gone, ctime, fptn, t)

\* slip: an ignored directory is recorded as an empty directory
VisitDirectory_marking(dirpath, d, fptn, dptn, t) ==
    LET file_models == IF _is_ignored_directory(dptn, dirpath) THEN <<>>
                       ELSE _build_file_models(dirpath, d.files[dirpath], d.gone,
                                               d.ctime, fptn, t)
    IN  [files |-> file_models,
         empty_dirs |-> IF file_models = <<>>
                        THEN <<Directory(dirpath, 0, 0)>> ELSE <<>>]

\* the body of the os.walk loop for one dirpath
VisitDirectory(dirpath, d, fptn, dptn, t) ==
    IF _is_ignored_directory(dptn, dirpath)
    THEN [files |-> <<>>, empty_dirs |-> <<>>]
    ELSE LET file_models == _build_file_models(dirpath, d.files[dirpath], d.gone,
                                               d.ctime, fptn, t)
         IN  [files |-> file_models,
              empty_dirs |-> IF file_models = <<>>
                             THEN <<Directory(dirpath, 0, 0)>> ELSE <<>>]

\* the dirpaths of the os.walk calls, root after root
RECURSIVE Visits(_, _)
Visits(roots, d) ==
    IF roots = <<>> THEN <<>> ELSE d.walk[Head(roots)] \o Visits(Tail(roots), d)

RECURSIVE WalkVisits(_, _, _, _, _)
WalkVisits(dirpaths, d, fptn, dptn, t) ==
    IF dirpaths = <<>> THEN [files |-> <<>>, empty_dirs |-> <<>>]
    ELSE LET first == VisitDirectory(Head(dirpaths), d, fptn, dptn, t)
             rest == WalkVisits(Tail(dirpaths), d, fptn, dptn, t)
         IN  [files |-> first.files \o rest.files,
              empty_dirs |-> first.empty_dirs \o rest.empty_dirs]

\* files, empty_dirs of _walk_directories
_walk_directories(roots, d, fptn, dptn, t) ==
    WalkVisits(Visits(roots, d), d, fptn, dptn, t)

\* the lines a step had enqueued when it raised: none when its query raised,
\* some but not all when add_line raised
Interrupted(queue, full) ==
    {SubSeq(full, 1, n) : n \in Len(queue)..(IF Len(full) > Len(queue)
                                             THEN Len(full) - 1 ELSE Len(queue))}

\* files, empty_dirs = self._walk_directories()
WalkScan ==
    /\ wpc = "idle"
    /\ walks < MaxWalks
    /\ Len(metric_lines) <= MaxPending
    /\ walks' = walks + 1
    /\ failed' = FALSE
    /\ \/ \E present \in SUBSET Keys :
            /\ disk' = DiskOf(present)
            /\ scan' = _walk_directories(root_directories, disk',
                                          exclude_file_pattern,
                                          exclude_directory_pattern, now)
            /\ wpc' = "scanned"
            /\ outcome' = "none"
       \/ /\ wpc' = "idle"
          /\ outcome' = "scan_raised"
          /\ UNCHANGED <<scan, disk>>
    /\ UNCHANGED <<files, runVars, oldest_file_row_age, metric_lines, histVars,
                   callVars, emitVars, loopVars, confVars>>

\* slip: __exit__ runs although __enter__ raised, and stop_run clears the flag
WalkEnter_exiting ==
    /\ wpc = "scanned"
    /\ LET running == IF IsStale(last_run, now, max_is_running_age)
                      THEN 0 ELSE is_running
       IN  IF running # 0
           THEN /\ wpc' = "idle"
                /\ outcome' = "start_raised"
                /\ is_running' = 0
                /\ UNCHANGED last_run
           ELSE /\ wpc' = "guarded"
                /\ is_running' = 1
                /\ last_run' = now
                /\ UNCHANGED outcome
    /\ UNCHANGED <<files, now, max_is_running_age, pc, rd, began, overrun,
                   oldest_file_row_age, metric_lines, scan, failed, walks,
                   histVars,
                   callVars, emitVars, loopVars, confVars, disk>>

\* with self._store as data_store: __enter__ calls start_run; when it raises
\* neither the body nor __exit__ runs
WalkEnter ==
    /\ wpc = "scanned"
    /\ LET running == IF IsStale(last_run, now, max_is_running_age)
                      THEN 0 ELSE is_running
       IN  IF running # 0
           THEN /\ wpc' = "idle"
                /\ outcome' = "start_raised"
                /\ UNCHANGED <<is_running, last_run>>
           ELSE /\ wpc' = "guarded"
                /\ is_running' = 1
                /\ last_run' = now
                /\ UNCHANGED outcome
    /\ UNCHANGED <<files, now, max_is_running_age, pc, rd, began, overrun,
                   oldest_file_row_age, metric_lines, scan, failed, walks,
                   histVars,
                   callVars, emitVars, loopVars, confVars, disk>>

\* slip: save_files is called ahead of the with statement, before start_run
WalkSave_unguarded ==
    /\ wpc \in {"scanned", "guarded"}
    /\ files' = save_files(files, scan.files)
    /\ wpc' = "saved"
    /\ op' = "walk"
    /\ UNCHANGED <<runVars, oldest_file_row_age, metric_lines, scan, failed,
                   outcome, walks, saved, repeat, callVars, emitVars, loopVars,
                   confVars, disk>>

\* data_store.save_files(files); when a statement raises, the statements run
\* before it stay in the open transaction of the connection
WalkSave ==
    /\ wpc = "guarded"
    /\ \/ /\ files' = save_files(files, scan.files)
          /\ wpc' = "saved"
          /\ UNCHANGED failed
       \/ /\ files' \in {files, _mark_all_removed(files),
                         _update_files(_mark_all_removed(files), scan.files)}
          /\ wpc' = "exit"
          /\ failed' = TRUE
    /\ op' = "walk"
    /\ UNCHANGED <<runVars, oldest_file_row_age, metric_lines, scan, outcome,
                   walks, saved, repeat, callVars, emitVars, loopVars, confVars, disk>>

\* one of the three _add_..._lines calls of the body
WalkLines(at, next, full) ==
    /\ wpc = at
    /\ \/ /\ metric_lines' = full
          /\ wpc' = next
          /\ UNCHANGED failed
       \/ /\ metric_lines' \in Interrupted(metric_lines, full)
          /\ wpc' = "exit"
          /\ failed' = TRUE
    /\ UNCHANGED <<files, runVars, oldest_file_row_age, scan, outcome, walks,
                   histVars,
                   callVars, emitVars, loopVars, confVars, disk>>

WalkCountLines ==
    WalkLines("saved", "counted",
              _add_directory_file_count_lines(metric_lines, files,
                                              scan.empty_dirs, now))

WalkSizeLines ==
    WalkLines("counted", "sized",
              _add_directory_size_lines(metric_lines, files,
                                        scan.empty_dirs, now))

\* the body ends with _add_file_lines; control passes to __exit__
WalkFileLines ==
    \E oldest \in get_oldest_files(files) :
        WalkLines("sized", "exit",
                  _add_file_lines(metric_lines,
                                  [i \in DOMAIN oldest |-> FileOfRow(oldest[i])],
                                  now))

\* __exit__: self.clean_oldest_files(); when it raises, __exit__ is left and
\* stop_run is not reached
WalkExitClean ==
    /\ wpc = "exit"
    /\ \/ /\ files' = clean_oldest_files(files, oldest_file_row_age)
          /\ wpc' = "cleaned"
          /\ UNCHANGED outcome
       \/ /\ wpc' = "idle"
          /\ outcome' = "cleanup_raised"
          /\ UNCHANGED files
    /\ op' = "walk"
    /\ UNCHANGED <<runVars, oldest_file_row_age, metric_lines, scan, failed,
                   walks, saved, repeat, callVars, emitVars, loopVars, confVars, disk>>

\* __exit__: self.stop_run(); __exit__ returns None, so an exception of the
\* body goes on to the caller of walk()
WalkExitStop ==
    /\ wpc = "cleaned"
    /\ is_running' = 0
    /\ wpc' = "idle"
    /\ outcome' = IF failed THEN "body_raised" ELSE "returned"
    /\ UNCHANGED <<files, last_run, now, max_is_running_age, pc, rd, began,
                   overrun, oldest_file_row_age, metric_lines, scan, failed,
                   walks, histVars,
                   callVars, emitVars, loopVars, confVars, disk>>

\* Watcher.emit: WatcherEmitter.emit pops every queued line and hands the
\* batches to the sinks, which keep no state of the program
Emit ==
    /\ wpc = "idle"
    /\ metric_lines # <<>>
    /\ metric_lines' = <<>>
    /\ UNCHANGED <<files, runVars, oldest_file_row_age, wpc, scan, failed,
                   outcome, walks, histVars,
                   callVars, emitVars, loopVars, confVars, disk>>

\* time passes between two walks
WalkTick ==
    /\ wpc = "idle"
    /\ Tick

InitWalkSpec ==
    /\ files = EmptyBag
    /\ InitRun
    /\ oldest_file_row_age \in {0, 1}
    /\ InitWalk
    /\ InitHist
    /\ InitLoop
    /\ InitConf

NextWalk ==
    \/ WalkScan
    \/ WalkEnter
    \/ WalkSave
    \/ WalkCountLines
    \/ WalkSizeLines
    \/ WalkFileLines
    \/ WalkExitClean
    \/ WalkExitStop
    \/ Emit
    \/ WalkTick

SpecWalk == InitWalkSpec /\ [][NextWalk]_vars

\* ------------------------------------------------------- claims on walk()
\* C10 as claimed: when a walk() that entered the guarded section has ended,
\* by a normal return or by an error of the body or of the retention cleanup,
\* the is_running flag is 0.
C10_AsClaimed ==
    (wpc = "idle" /\ outcome \in {"returned", "body_raised", "cleanup_raised"})
        => is_running = 0

\* C12 as claimed: a row whose file has disappeared (removed=1, not observed
\* since) does not survive the cleanup at the end of a walk cycle once the
\* time since it was last seen exceeds the retention threshold.
C12_AsClaimed ==
    (wpc = "cleaned" /\ ~failed) =>
        \A r \in Rows(files) :
            (r.removed = 1 /\ KeyOf(r) \notin SnapshotKeys(scan.files))
                => ~(now - r.last_seen > oldest_file_row_age * 86400)

\* ------------------------------------- the queries and the cleanup on their own
\* oldest_file_row_age: int = 30
DefaultOldestFileRowAge == 30

\* ages around the default retention threshold, in seconds
AgeSeconds ==
    {0, 29 * SecondsPerDay, 30 * SecondsPerDay, 30 * SecondsPerDay + 1,
     31 * SecondsPerDay}

\* per key: no row, or the age and the removed flag of its row
Stored == [Keys -> {<<>>} \cup (AgeSeconds \X {0, 1})]

\* the table save_files has built for files first seen at time 1: one row per
\* key, last_seen = first_seen + age_seconds
TableOf(f) ==
    SetToBag({Row(k[1], k[2], 1, 1 + f[k][1], f[k][1], f[k][2]) :
                 k \in {x \in Keys : f[x] # <<>>}})

InitQuery ==
    /\ \E f \in Stored : files = TableOf(f)
    /\ InitRun
    /\ max_is_running_age = 1
    /\ oldest_file_row_age \in {0, DefaultOldestFileRowAge}
    /\ InitWalk
    /\ InitHist
    /\ InitLoop
    /\ InitConf

\* a call of clean_oldest_files()
CleanOldestFiles ==
    /\ files' = clean_oldest_files(files, oldest_file_row_age)
    /\ before' = files
    /\ op' = "clean_oldest_files"
    /\ UNCHANGED <<runVars, walkVars, saved, repeat, result, emitVars, loopVars, confVars, disk>>

\* a call of get_directories()
GetDirectories ==
    /\ result' = get_directories(files)
    /\ before' = files
    /\ op' = "get_directories"
    /\ UNCHANGED <<files, runVars, walkVars, saved, repeat, emitVars, loopVars, confVars, disk>>

\* a call of get_oldest_files()
GetOldestFiles ==
    /\ \E q \in get_oldest_files(files) :
           result' = [i \in DOMAIN q |-> FileOfRow(q[i])]
    /\ before' = files
    /\ op' = "get_oldest_files"
    /\ UNCHANGED <<files, runVars, walkVars, saved, repeat, emitVars, loopVars, confVars, disk>>

NextQuery ==
    \/ CleanOldestFiles
    \/ GetDirectories
    \/ GetOldestFiles

SpecQuery == InitQuery /\ [][NextQuery]_vars

\* --------------------------------------- claims on the queries and cleanup
\* C11: clean_oldest_files deletes exactly the rows whose age_seconds is
\* greater than oldest_file_row_age * 86400 and leaves every other row as it
\* was, whatever its removed flag: with threshold 30 a row at 31 days is gone,
\* rows at 29 days and at exactly 30 days stay.
C11_CleanDeletesOlder ==
    op = "clean_oldest_files" =>
        /\ \A r \in Rows(before) :
               IF r.age_seconds > oldest_file_row_age * 86400
               THEN r \notin Rows(files)
               ELSE r \in Rows(files) /\ CopiesIn(r, files) = CopiesIn(r, before)
        /\ Rows(files) \subseteq Rows(before)
        /\ oldest_file_row_age = 30 =>
               \A r \in Rows(before) :
                   /\ r.age_seconds = 31 * 86400 => r \notin Rows(files)
                   /\ r.age_seconds \in {29 * 86400, 30 * 86400} => r \in Rows(files)

\* threshold 30: a live row at 31 days was deleted, a removed row at exactly
\* 30 days and a row at 29 days were kept
C11_Witness ==
    /\ op = "clean_oldest_files"
    /\ oldest_file_row_age = 30
    /\ \E r \in Rows(before) :
           r.age_seconds = 31 * 86400 /\ r.removed = 0 /\ r \notin Rows(files)
    /\ \E r \in Rows(files) : r.age_seconds = 30 * 86400 /\ r.removed = 1
    /\ \E r \in Rows(files) : r.age_seconds = 29 * 86400

\* live rows of a root, counted without the model's query helpers
LiveCount(table, root) ==
    Cardinality({r \in Rows(table) : r.root = root /\ r.removed = 0})

\* C13 as claimed: get_directories returns exactly one entry for each root
\* that has a row with removed=0, the entry's file_count is the number of rows
\* of that root with removed=0, and a root whose rows are all removed is not
\* returned.
C13_AsClaimed ==
    op = "get_directories" =>
        /\ \A i, j \in DOMAIN result : result[i].root = result[j].root => i = j
        /\ {result[i].root : i \in DOMAIN result}
               = {r.root : r \in {q \in Rows(files) : q.removed = 0}}
        /\ \A i \in DOMAIN result :
               result[i].file_count = LiveCount(files, result[i].root)

\* C14: get_oldest_files returns exactly one file for each root that has a row
\* with removed=0; the file has removed=0 and the greatest age_seconds among
\* the rows of its root with removed=0 (an older removed row is not returned);
\* the list is ordered by age_seconds, greatest first.
C14_OldestPerRoot ==
    op = "get_oldest_files" =>
        /\ \A i, j \in DOMAIN result : result[i].root = result[j].root => i = j
        /\ {result[i].root : i \in DOMAIN result}
               = {r.root : r \in {q \in Rows(files) : q.removed = 0}}
        /\ \A i \in DOMAIN result :
               /\ result[i].removed = 0
               /\ \E r \in Rows(files) :
                      /\ r.removed = 0
                      /\ KeyOf(r) = KeyOf(result[i])
                      /\ r.age_seconds = result[i].age_seconds
                      /\ \A q \in Rows(files) :
                             (q.root = r.root /\ q.removed = 0)
                                 => q.age_seconds <= r.age_seconds
        /\ \A i, j \in DOMAIN result :
               i < j => result[i].age_seconds >= result[j].age_seconds

\* two roots answered with files of different age, while a removed row of the
\* second root is older than both
C14_Witness ==
    /\ op = "get_oldest_files"
    /\ Len(result) = 2
    /\ result[1].age_seconds > result[2].age_seconds
    /\ \E r \in Rows(files) :
           /\ r.removed = 1
           /\ r.root = result[2].root
           /\ r.age_seconds > result[1].age_seconds

\* --------------------------------------------------------- WatcherEmitter
\* One emitter, called from one thread: add_line and emit never overlap.
MaxLines == 3
MaxBatch == 2

\* sep.join(strings)
RECURSIVE Join(_, _)
Join(strings, sep) ==
    IF strings = <<>> THEN ""
    ELSE IF Len(strings) = 1 THEN strings[1]
    ELSE strings[1] \o sep \o Join(Tail(strings), sep)

\* the f-string of _get_lines
RenderLine(metric) ==
    metric.metric_name \o "," \o Join(metric.dimensions, ",") \o " "
        \o Join(metric.guage_values, ",") \o " " \o ToString(metric.timestamp)

\* slip: pop() in place of popleft()
RECURSIVE _get_lines_pop(_, _, _)
_get_lines_pop(queue, max_lines, got) ==
    IF queue # <<>> /\ Len(got) < max_lines
    THEN _get_lines_pop(SubSeq(queue, 1, Len(queue) - 1), max_lines,
                        Append(got, RenderLine(queue[Len(queue)])))
    ELSE [lines |-> got, queue |-> queue]

\* _get_lines(max_lines): the lines built so far, and what is left of the queue
RECURSIVE _get_lines(_, _, _)
_get_lines(queue, max_lines, got) ==
    IF queue # <<>> /\ Len(got) < max_lines
    THEN _get_lines(Tail(queue), max_lines, Append(got, RenderLine(Head(queue))))
    ELSE [lines |-> got, queue |-> queue]

\* what may come of a POST: a response with a status, or an exception of
\* http.client (status 0 stands for no response)
Statuses == {204, 202, 400}
HttpErrors == {"ConnectionRefusedError", "TimeoutError"}
HttpAnswers ==
    {[status |-> c, error |-> ""] : c \in Statuses}
        \cup {[status |-> 0, error |-> e] : e \in HttpErrors}

\* valid_status_codes=[204] of to_telegraf
TelegrafStatusCodes == {204}

\* payload = "\n".join(metric_lines) + "\n"
Payload(metric_lines_) == Join(metric_lines_, "\n") \o "\n"

\* slip: a status that is not valid raises, as raise_for_status would
_emit_lines_raising(ans, valid_status_codes) ==
    IF ans.error # "" THEN "raised"
    ELSE IF ans.status \notin valid_status_codes THEN "raised"
    ELSE "debug"

\* _emit_lines after the request: conn.request / conn.getresponse raise, or
\* the status is logged with logger.error or logger.debug
_emit_lines(ans, valid_status_codes) ==
    IF ans.error # "" THEN "raised"
    ELSE IF ans.status \notin valid_status_codes THEN "error"
    ELSE "debug"

\* the arguments of the add_line calls
MetricInputs ==
    {[metric_name |-> "m", dimensions |-> <<"tag=a">>,
      guage_values |-> <<"val=1">>, timestamp |-> 12],
     [metric_name |-> "m", dimensions |-> <<"tag=a">>,
      guage_values |-> <<"val=2">>, timestamp |-> 0],
     [metric_name |-> "metric.name", dimensions |-> <<"key1=test", "key2=b">>,
      guage_values |-> <<"value=1", "n=2">>, timestamp |-> 12]}

\* a call of add_line
AddLine(m) ==
    /\ epc = "idle"
    /\ Len(enqueued) < MaxLines
    /\ metric_lines' = add_line(metric_lines, m.metric_name, m.dimensions,
                                m.guage_values, m.timestamp, now)
    /\ enqueued' = Append(enqueued, m)
    /\ UNCHANGED <<files, runVars, oldest_file_row_age, wpc, scan, failed,
                   outcome, walks, histVars, callVars, loopVars, confVars, disk,
                   max_emit_line_count, ecaller, emit_telegraf, epc, batch_size,
                   lines, answers, log_errors, eoutcome, emit_n, handed, calls,
                   posted>>

\* the batch_size of emit() when the caller passes none
DefaultBatchSize == 500

\* emit(batch_size=bs) is entered: count = 0
EmitEnter(bs, caller) ==
    /\ epc = "idle"
    /\ epc' = "loop"
    /\ batch_size' = bs
    /\ ecaller' = caller
    /\ emit_n' = Len(metric_lines)
    /\ lines' = <<>>
    /\ answers' = <<>>
    /\ log_errors' = 0
    /\ eoutcome' = "none"
    /\ calls' = [s \in Sinks |-> <<>>]
    /\ posted' = <<>>
    /\ UNCHANGED <<files, runVars, walkVars, histVars, callVars, loopVars, confVars, disk,
                   max_emit_line_count, emit_telegraf, enqueued, handed>>

\* a caller of the emitter passes a batch size, as the emitter's tests do
EmitCall(bs) == EmitEnter(bs, "emitter")

\* Watcher.emit: self._emitter.emit(), no batch_size is passed
WatcherEmit == EmitEnter(DefaultBatchSize, "watcher")

\* while self._metric_lines: lines = self._get_lines(batch_size)
EmitGetLines ==
    /\ epc = "loop"
    /\ metric_lines # <<>>
    /\ LET got == _get_lines(metric_lines, batch_size, <<>>)
       IN  /\ lines' = got.lines
           /\ metric_lines' = got.queue
    /\ epc' = "stdout"
    /\ UNCHANGED <<files, runVars, oldest_file_row_age, wpc, scan, failed,
                   outcome, walks, histVars, callVars, loopVars, confVars, disk,
                   max_emit_line_count, ecaller, emit_telegraf, batch_size,
                   answers, log_errors, eoutcome, emit_n, enqueued, handed,
                   calls, posted>>

\* self.to_stdout(lines)
ToStdout ==
    /\ epc = "stdout"
    /\ calls' = [calls EXCEPT !["stdout"] = Append(@, lines)]
    /\ handed' = handed \o lines
    /\ epc' = "file"
    /\ UNCHANGED <<files, runVars, walkVars, histVars, callVars, loopVars, confVars, disk,
                   max_emit_line_count, ecaller, emit_telegraf,
                   batch_size, lines, answers, log_errors, eoutcome, emit_n,
                   enqueued, posted>>

\* self.to_file(lines)
ToFile ==
    /\ epc = "file"
    /\ calls' = [calls EXCEPT !["file"] = Append(@, lines)]
    /\ epc' = "telegraf"
    /\ UNCHANGED <<files, runVars, walkVars, histVars, callVars, loopVars, confVars, disk,
                   max_emit_line_count, ecaller, emit_telegraf,
                   batch_size, lines, answers, log_errors, eoutcome, emit_n,
                   enqueued, handed, posted>>

\* self.to_telegraf(lines), then count += len(lines); an exception of
\* _emit_lines leaves emit()
ToTelegraf ==
    /\ epc = "telegraf"
    /\ calls' = [calls EXCEPT !["telegraf"] = Append(@, lines)]
    /\ IF ~emit_telegraf \/ lines = <<>>
       THEN /\ epc' = "loop"
            /\ UNCHANGED <<answers, posted, log_errors, eoutcome>>
       ELSE \E ans \in HttpAnswers :
                /\ posted' = Append(posted, Payload(lines))
                /\ answers' = Append(answers, ans)
                /\ LET logged == _emit_lines(ans, TelegrafStatusCodes)
                   IN  /\ log_errors' = IF logged = "error"
                                        THEN log_errors + 1 ELSE log_errors
                       /\ epc' = IF logged = "raised" THEN "idle" ELSE "loop"
                       /\ eoutcome' = IF logged = "raised"
                                      THEN "raised" ELSE eoutcome
    /\ UNCHANGED <<files, runVars, walkVars, histVars, callVars, loopVars, confVars, disk,
                   max_emit_line_count, ecaller, emit_telegraf,
                   batch_size, lines, emit_n, enqueued, handed>>

\* the while test finds the queue empty: emit() returns
EmitReturn ==
    /\ epc = "loop"
    /\ metric_lines = <<>>
    /\ epc' = "idle"
    /\ eoutcome' = "returned"
    /\ UNCHANGED <<files, runVars, walkVars, histVars, callVars, loopVars, confVars, disk,
                   max_emit_line_count, ecaller, emit_telegraf,
                   batch_size, lines, answers, log_errors, emit_n, enqueued,
                   handed, calls, posted>>

InitEmitSpec ==
    /\ files = EmptyBag
    /\ InitRun
    /\ max_is_running_age = 1
    /\ oldest_file_row_age = 0
    /\ InitEmit
    /\ emit_telegraf \in BOOLEAN
    /\ max_emit_line_count \in 1..MaxBatch
    /\ wpc = "idle"
    /\ scan = [files |-> <<>>, empty_dirs |-> <<>>]
    /\ failed = FALSE
    /\ outcome = "none"
    /\ walks = 0
    /\ InitHist
    /\ InitLoop
    /\ InitConf

NextEmit ==
    \/ \E m \in MetricInputs : AddLine(m)
    \/ \E bs \in 1..MaxBatch : EmitCall(bs)
    \/ WatcherEmit
    \/ EmitGetLines
    \/ ToStdout
    \/ ToFile
    \/ ToTelegraf
    \/ EmitReturn

SpecEmit == InitEmitSpec /\ [][NextEmit]_vars

\* ------------------------------------------------- claims on the emitter
\* name,dims gauges and the timestamp as the claim writes the line
LineOf(m, timestamp) ==
    m.metric_name \o "," \o Join(m.dimensions, ",") \o " "
        \o Join(m.guage_values, ",") \o " " \o ToString(timestamp)

\* C15 as claimed: a metric enqueued with an explicit timestamp t is handed to
\* the sinks as "<name>,<dims> <gauges> <t>", the timestamp as given:
\* add_line("m", ["tag=a"], ["val=1"], 12) gives "m,tag=a val=1 12".
C15_AsClaimed ==
    \A i \in DOMAIN handed :
        enqueued[i].timestamp # 0 =>
            /\ handed[i] = LineOf(enqueued[i], enqueued[i].timestamp)
            /\ (enqueued[i] = [metric_name |-> "m", dimensions |-> <<"tag=a">>,
                               guage_values |-> <<"val=1">>, timestamp |-> 12])
                   => handed[i] = "m,tag=a val=1 12"

\* C15 amended: a metric enqueued with an explicit timestamp t (seconds) is
\* handed to the sinks as "<name>,<dims> <gauges> <t * 1000>", the timestamp
\* in milliseconds: add_line("m", ["tag=a"], ["val=1"], 12) gives
\* "m,tag=a val=1 12000".
C15_RenderedInMilliseconds ==
    \A i \in DOMAIN handed :
        enqueued[i].timestamp # 0 =>
            /\ handed[i] = LineOf(enqueued[i], enqueued[i].timestamp * 1000)
            /\ (enqueued[i] = [metric_name |-> "m", dimensions |-> <<"tag=a">>,
                               guage_values |-> <<"val=1">>, timestamp |-> 12])
                   => handed[i] = "m,tag=a val=1 12000"

\* the line of add_line("m", ["tag=a"], ["val=1"], 12) has reached the sinks,
\* and so has a line with two dimensions and two gauge values
C15_Witness ==
    /\ \E i \in DOMAIN handed :
           /\ enqueued[i] = [metric_name |-> "m", dimensions |-> <<"tag=a">>,
                             guage_values |-> <<"val=1">>, timestamp |-> 12]
           /\ handed[i] = "m,tag=a val=1 12000"
    /\ \E i \in DOMAIN handed :
           handed[i] = "metric.name,key1=test,key2=b value=1,n=2 12000"

\* the lines the metrics of the add_line calls render to, in call order
ExpectedLines ==
    [i \in DOMAIN enqueued |->
        LineOf(enqueued[i], (IF enqueued[i].timestamp # 0
                             THEN enqueued[i].timestamp ELSE now) * 1000)]

\* the lines of the metrics still queued
RECURSIVE QueuedLines(_)
QueuedLines(queue) ==
    IF queue = <<>> THEN <<>>
    ELSE <<LineOf(Head(queue), Head(queue).timestamp)>> \o QueuedLines(Tail(queue))

\* the lines handed out, the batch just popped, and the lines still queued
AllLines(h, e, l, q) == h \o (IF e = "stdout" THEN l ELSE <<>>) \o QueuedLines(q)

\* C16: over every sequence of add_line and emit calls, the lines handed to
\* the sinks, batch after batch, are the enqueued metrics in enqueue order,
\* each exactly once; the queue only grows at its end by add_line and shrinks
\* at its front by a batch, so a popped metric never re-enters it.
C16_FifoOnce ==
    [][/\ AllLines(handed', epc', lines', metric_lines') = ExpectedLines'
       /\ \/ metric_lines' = metric_lines
          \/ /\ Len(enqueued') = Len(enqueued) + 1
             /\ Len(metric_lines') = Len(metric_lines) + 1
             /\ SubSeq(metric_lines', 1, Len(metric_lines)) = metric_lines
          \/ /\ enqueued' = enqueued
             /\ Len(metric_lines') < Len(metric_lines)
             /\ metric_lines' = SubSeq(metric_lines, Len(lines') + 1,
                                       Len(metric_lines))
       /\ Len(handed') >= Len(handed)
       /\ SubSeq(handed', 1, Len(handed)) = handed
    ]_vars

\* two emit calls with an add_line between them: the second emit has handed
\* out a batch of two lines after the first emit handed out one
C16_Witness ==
    /\ Len(handed) = 3
    /\ Len(enqueued) = 3
    /\ enqueued[1] # enqueued[2]
    /\ enqueued[2] # enqueued[3]
    /\ calls["stdout"] = <<SubSeq(handed, 2, 3)>>
    /\ metric_lines = <<>>

\* C17 as claimed: for a queue of n metrics and batch_size >= 1, an emit that
\* has ended has handed out ceil(n / batch_size) batches, each non-empty and of
\* at most batch_size lines, all but the last of exactly batch_size, and has
\* left the queue empty.
C17_AsClaimed ==
    [][(epc # "idle" /\ epc' = "idle") =>
        LET batches == calls'["stdout"]
        IN  /\ Len(batches) = (emit_n + batch_size - 1) \div batch_size
            /\ \A i \in DOMAIN batches :
                   /\ Len(batches[i]) >= 1
                   /\ Len(batches[i]) <= batch_size
                   /\ i < Len(batches) => Len(batches[i]) = batch_size
            /\ metric_lines' = <<>>
    ]_vars

\* C18 as claimed: whenever emit is about to pop the next batch or to return,
\* every batch it has popped has been handed exactly once to each of the four
\* sinks stdout, file, telegraf and oneagent.
C18_AsClaimed ==
    (epc = "loop" \/ (epc = "idle" /\ eoutcome = "returned")) =>
        \A s \in {"stdout", "file", "telegraf", "oneagent"} :
            calls[s] = calls["stdout"]

\* C19: when the telegraf receiver answers a batch with a status other than
\* 204, one error is logged, emit does not raise, the queue is left as it is,
\* the batch is posted once and not again, and emit goes on: at the while
\* test it pops the next batch when the queue is not empty and returns when
\* it is.
C19_BadStatusLogged ==
    [][/\ (epc = "telegraf" /\ Len(answers') = Len(answers) + 1
           /\ answers'[Len(answers')].error = ""
           /\ answers'[Len(answers')].status # 204)
          => /\ log_errors' = log_errors + 1
             /\ epc' = "loop"
             /\ eoutcome' # "raised"
             /\ metric_lines' = metric_lines
             /\ posted' = Append(posted, Payload(lines))
       /\ Len(posted') <= Len(calls'["telegraf"])
       /\ (epc = "loop" /\ epc' # "loop")
          => IF metric_lines # <<>>
             THEN epc' = "stdout" /\ lines' # <<>>
             ELSE epc' = "idle" /\ eoutcome' = "returned"
       /\ (epc # "idle" /\ epc' = "idle" /\ eoutcome' = "returned")
          => metric_lines' = <<>>
    ]_vars

\* an emit whose first batch was answered 400 and whose second batch was
\* answered 204 has returned with one error logged
C19_Witness ==
    /\ epc = "idle"
    /\ eoutcome = "returned"
    /\ Len(answers) = 2
    /\ answers[1] = [status |-> 400, error |-> ""]
    /\ answers[2] = [status |-> 204, error |-> ""]
    /\ log_errors = 1
    /\ Len(posted) = 2
    /\ metric_lines = <<>>

\* C20 as claimed: a connection error or a timeout of the HTTP sink is
\* recovered inside the emitter: emit does not raise, the batch stays out of
\* the queue, and emit goes on with the later batches.
C20_AsClaimed ==
    [][(epc = "telegraf" /\ Len(answers') = Len(answers) + 1
        /\ answers'[Len(answers')].error # "")
       => /\ eoutcome' # "raised"
          /\ epc' = "loop"
          /\ metric_lines' = metric_lines
    ]_vars

\* C21: while Watcher.emit drains the queue, no batch handed to the sinks
\* has more lines than the configured max_emit_line_count
C21_AsClaimed ==
    ecaller = "watcher" =>
        \A s \in Sinks : \A i \in DOMAIN calls[s] :
            Len(calls[s][i]) <= max_emit_line_count

\* ------------------------------------------------- run_once and run_loop
\* One step is one call of walk(), emit() or time.sleep; the statements of a
\* walk() and of an emit() are the actions of SpecWalk and SpecEmit.  The
\* clock counts in units of the sleep of run_loop; the intervals and the
\* staleness window are given in the same unit.
MaxCallTime == 2
MaxInterval == 2

\* collect_interval and emit_interval as configured
Intervals == (0 - 1)..MaxInterval

\* the files the walks of a runner find on disk
RunScans == {{}, {<<"r1", "f1">>}, Keys}

\* an entry of rlog
Called(call, start, end, out, queue) ==
    [call |-> call, start |-> start, end |-> end, tick |-> ticks, out |-> out,
     queued |-> Len(queue)]

\* walk() as one step that takes d units of time: the scan, __enter__, the
\* body and __exit__; an OSError of the scan, the RuntimeError of start_run
\* and an error of the cleanup leave it as exceptions, and so does a
\* KeyboardInterrupt that arrives during the scan
walk(d) ==
    /\ wpc = "idle"
    /\ walks < MaxWalks
    /\ now + d <= MaxNow
    /\ walks' = walks + 1
    /\ now' = now + d
    /\ failed' = FALSE
    /\ \E present \in RunScans :
        LET found == _walk_directories(root_directories, DiskOf(present),
                                       exclude_file_pattern,
                                       exclude_directory_pattern, now)
            running == IF IsStale(last_run, now, max_is_running_age)
                       THEN 0 ELSE is_running
            stored == save_files(files, found.files)
            counted == _add_directory_file_count_lines(metric_lines, stored,
                                                       found.empty_dirs, now)
            sized == _add_directory_size_lines(counted, stored,
                                               found.empty_dirs, now)
        IN  \/ /\ outcome' \in {"scan_raised", "interrupted"}
               /\ UNCHANGED <<files, metric_lines, is_running, last_run, scan,
                              disk>>
            \/ /\ running # 0
               /\ outcome' = "start_raised"
               /\ scan' = found
               /\ disk' = DiskOf(present)
               /\ UNCHANGED <<files, metric_lines, is_running, last_run>>
            \/ /\ running = 0
               /\ scan' = found
               /\ disk' = DiskOf(present)
               /\ last_run' = now
               /\ \E oldest \in get_oldest_files(stored) :
                      metric_lines' =
                          _add_file_lines(sized,
                                          [i \in DOMAIN oldest |-> FileOfRow(oldest[i])],
                                          now)
               /\ \/ /\ files' = clean_oldest_files(stored, oldest_file_row_age)
                     /\ is_running' = 0
                     /\ outcome' = "returned"
                  \/ /\ files' = stored
                     /\ is_running' = 1
                     /\ outcome' = "cleanup_raised"
    /\ rlog' = Append(rlog, Called("walk", now, now', outcome', metric_lines'))
    /\ UNCHANGED <<max_is_running_age, pc, rd, began, overrun,
                   oldest_file_row_age, wpc, histVars, callVars>>

\* Watcher.emit as one step that takes d units of time: emit() pops the
\* queue in batches of DefaultBatchSize and hands them to the sinks; an
\* exception of a POST or a KeyboardInterrupt leaves it after a batch was
\* popped
emit(d) ==
    /\ epc = "idle"
    /\ now + d <= MaxNow
    /\ now' = now + d
    /\ ecaller' = "watcher"
    /\ batch_size' = DefaultBatchSize
    /\ emit_n' = Len(metric_lines)
    /\ LET got == _get_lines(metric_lines, DefaultBatchSize, <<>>)
       IN  \/ /\ metric_lines' = <<>>
              /\ eoutcome' = "returned"
           \/ /\ metric_lines # <<>>
              /\ metric_lines' = got.queue
              /\ \/ eoutcome' = "interrupted"
                 \/ emit_telegraf /\ eoutcome' = "raised"
    /\ rlog' = Append(rlog, Called("emit", now, now', eoutcome', metric_lines'))
    /\ UNCHANGED <<files, last_run, is_running, max_is_running_age, pc, rd,
                   began, overrun, oldest_file_row_age, wpc, scan, failed,
                   outcome, walks, histVars, callVars, emit_telegraf, epc,
                   lines, answers, log_errors, enqueued, handed, calls, posted,
                   max_emit_line_count>>

\* how a call of the runner ended
Returned(out) == out = "returned"

\* run_once is called
RunOnceCall ==
    /\ rpc = "idle"
    /\ rpc' = "once_walk"
    /\ UNCHANGED <<files, runVars, walkVars, histVars, callVars, emitVars,
                   confVars, disk, collect_interval, emit_interval, next_walk, next_emit,
                   ticks, rlog>>

\* run_once: self.walk()
RunOnceWalk ==
    /\ rpc = "once_walk"
    /\ \E d \in 0..MaxCallTime : walk(d)
    /\ rpc' = IF Returned(outcome') THEN "once_emit" ELSE "once_raised"
    /\ UNCHANGED <<emitVars, confVars, collect_interval, emit_interval,
                   next_walk, next_emit, ticks>>

\* slip: emit() is not called
RunOnceEmit_skipped ==
    /\ rpc = "once_emit"
    /\ rpc' = "once_returned"
    /\ UNCHANGED <<files, runVars, walkVars, histVars, callVars, emitVars,
                   confVars, disk, collect_interval, emit_interval, next_walk, next_emit,
                   ticks, rlog>>

\* run_once: self.emit(), and run_once returns
RunOnceEmit ==
    /\ rpc = "once_emit"
    /\ \E d \in 0..MaxCallTime : emit(d)
    /\ rpc' = IF Returned(eoutcome') THEN "once_returned" ELSE "once_raised"
    /\ UNCHANGED <<confVars, disk, collect_interval, emit_interval, next_walk, next_emit,
                   ticks>>

\* slip: a call is due only after its due time
is_due_after(t, due) == t > due

\* time.time() >= next_walk, time.time() >= next_emit
is_due(t, due) == t >= due

\* slip: the next due time is counted from the last due time
next_due_from_schedule(due, finished, interval) == due + interval

\* next_walk = time.time() + interval, read after the call has returned
next_due(due, finished, interval) == finished + interval

\* slip: every exception ends the loop with a normal return
run_loop_except_swallowing(out) == "loop_returned"

\* except KeyboardInterrupt: log and return; except Exception: log and raise
run_loop_except(out) ==
    IF out = "interrupted" THEN "loop_returned" ELSE "loop_raised"

\* run_loop is called: next_walk and next_emit are set, the while is entered
RunLoopCall ==
    /\ rpc = "idle"
    /\ rpc' = "test_walk"
    /\ next_walk' = now + collect_interval
    /\ next_emit' = now + emit_interval
    /\ ticks' = 1
    /\ rlog' = Append(rlog, [Called("run_loop", now, now, "entered", metric_lines)
                                EXCEPT !.tick = 0])
    /\ UNCHANGED <<files, runVars, walkVars, histVars, callVars, emitVars,
                   confVars, disk, collect_interval, emit_interval>>

\* if time.time() >= next_walk: self.walk(); next_walk = ...
LoopWalk ==
    /\ rpc = "test_walk"
    /\ is_due(now, next_walk)
    /\ \E d \in 0..MaxCallTime : walk(d)
    /\ IF Returned(outcome')
       THEN /\ rpc' = "test_emit"
            /\ next_walk' = next_due(next_walk, now', collect_interval)
       ELSE /\ rpc' = run_loop_except(outcome')
            /\ UNCHANGED next_walk
    /\ UNCHANGED <<emitVars, confVars, collect_interval, emit_interval,
                   next_emit, ticks>>

\* the walk is not due
LoopSkipWalk ==
    /\ rpc = "test_walk"
    /\ ~is_due(now, next_walk)
    /\ rpc' = "test_emit"
    /\ UNCHANGED <<files, runVars, walkVars, histVars, callVars, emitVars,
                   confVars, disk, collect_interval, emit_interval, next_walk, next_emit,
                   ticks, rlog>>

\* if time.time() >= next_emit: self.emit(); next_emit = ...
LoopEmit ==
    /\ rpc = "test_emit"
    /\ is_due(now, next_emit)
    /\ \E d \in 0..MaxCallTime : emit(d)
    /\ IF Returned(eoutcome')
       THEN /\ rpc' = "sleep"
            /\ next_emit' = next_due(next_emit, now', emit_interval)
       ELSE /\ rpc' = run_loop_except(eoutcome')
            /\ UNCHANGED next_emit
    /\ UNCHANGED <<confVars, disk, collect_interval, emit_interval, next_walk, ticks>>

\* the emit is not due
LoopSkipEmit ==
    /\ rpc = "test_emit"
    /\ ~is_due(now, next_emit)
    /\ rpc' = "sleep"
    /\ UNCHANGED <<files, runVars, walkVars, histVars, callVars, emitVars,
                   confVars, disk, collect_interval, emit_interval, next_walk, next_emit,
                   ticks, rlog>>

\* time.sleep(0.1): the next pass begins, or the sleep is left by a
\* KeyboardInterrupt or, as in the tests, by another exception
LoopSleep ==
    /\ rpc = "sleep"
    /\ now < MaxNow
    /\ now' = now + 1
    /\ \E out \in {"returned", "interrupted", "raised"} :
        /\ rlog' = Append(rlog, Called("sleep", now, now', out, metric_lines))
        /\ IF Returned(out)
           THEN /\ rpc' = "test_walk"
                /\ ticks' = ticks + 1
           ELSE /\ rpc' = run_loop_except(out)
                /\ UNCHANGED ticks
    /\ UNCHANGED <<files, last_run, is_running, max_is_running_age, pc, rd,
                   began, overrun, walkVars, histVars, callVars, emitVars,
                   confVars, disk, collect_interval, emit_interval, next_walk, next_emit>>

\* the store of a watcher that is started while the flag of an earlier run
\* may be set
InitRunner ==
    /\ files = EmptyBag
    /\ now = 1
    /\ last_run = 1
    /\ is_running \in {0, 1}
    /\ max_is_running_age = MaxRunningAge
    /\ pc = [p \in Procs |-> "idle"]
    /\ rd = [p \in Procs |-> <<0, 0>>]
    /\ began = [p \in Procs |-> 0]
    /\ overrun = FALSE
    /\ oldest_file_row_age = DefaultOldestFileRowAge
    /\ InitEmit
    /\ emit_telegraf \in BOOLEAN
    /\ max_emit_line_count = DefaultMaxEmitLineCount
    /\ wpc = "idle"
    /\ scan = [files |-> <<>>, empty_dirs |-> <<>>]
    /\ failed = FALSE
    /\ outcome = "none"
    /\ walks = 0
    /\ InitHist
    /\ collect_interval \in Intervals
    /\ emit_interval \in Intervals
    /\ rpc = "idle"
    /\ next_walk = 0
    /\ next_emit = 0
    /\ ticks = 0
    /\ rlog = <<>>
    /\ InitConf

NextRunner ==
    \/ RunOnceCall
    \/ RunOnceWalk
    \/ RunOnceEmit
    \/ RunLoopCall
    \/ LoopWalk
    \/ LoopSkipWalk
    \/ LoopEmit
    \/ LoopSkipEmit
    \/ LoopSleep

SpecRunner == InitRunner /\ [][NextRunner]_vars

\* ------------------------------------------------- claims on the runners
\* the walk() and emit() calls of rlog, by name
RECURSIVE CallNames(_)
CallNames(log) ==
    IF log = <<>> THEN <<>>
    ELSE (IF Head(log).call \in {"walk", "emit"} THEN <<Head(log).call>> ELSE <<>>)
            \o CallNames(Tail(log))

InLoop == rlog # <<>> /\ rlog[1].call = "run_loop"

LastCall == rlog[Len(rlog)]

\* C22: when run_once returns it has called walk() once and then emit()
\* once, and every line the walk enqueued has been popped by that emit: the
\* queue is empty.
C22_RunOnceWalksThenEmits ==
    rpc = "once_returned" =>
        /\ CallNames(rlog) = <<"walk", "emit">>
        /\ rlog[1].out = "returned"
        /\ rlog[1].queued > 0
        /\ emit_n = rlog[1].queued
        /\ rlog[2].queued = 0
        /\ metric_lines = <<>>

\* a run_once has returned whose walk found a directory with a file
C22_Witness ==
    /\ rpc = "once_returned"
    /\ emit_n >= 5
    /\ metric_lines = <<>>

\* the end of the latest call before entry i that is a call of c or the
\* entry of run_loop
PrevEnd(i, c) ==
    LET js == {j \in 1..(i - 1) : rlog[j].call \in {c, "run_loop"}}
    IN  rlog[CHOOSE j \in js : \A k \in js : k <= j].end

IntervalOf(c) == IF c = "walk" THEN collect_interval ELSE emit_interval

DueOf(c) == IF c = "walk" THEN next_walk ELSE next_emit

\* C23: with positive intervals, run_loop calls walk() (emit()) no earlier
\* than collect_interval (emit_interval) after the loop started or the
\* previous walk() (emit()) finished, and while the loop runs the next due
\* time is the finish time of the last call plus the interval.
C23_WaitsForInterval ==
    (InLoop /\ collect_interval > 0 /\ emit_interval > 0) =>
        /\ \A i \in DOMAIN rlog :
              rlog[i].call \in {"walk", "emit"} =>
                  rlog[i].start >= PrevEnd(i, rlog[i].call) + IntervalOf(rlog[i].call)
        /\ \A c \in {"walk", "emit"} :
              rpc \in {"test_walk", "test_emit", "sleep"} =>
                  DueOf(c) = PrevEnd(Len(rlog) + 1, c) + IntervalOf(c)

\* a walk() lasted longer than collect_interval and the loop went on
C23_Witness ==
    /\ InLoop /\ collect_interval > 0 /\ emit_interval > 0
    /\ rpc = "sleep"
    /\ \E i \in DOMAIN rlog :
          /\ rlog[i].call = "walk"
          /\ rlog[i].start > rlog[1].end
          /\ rlog[i].end - rlog[i].start > collect_interval
    /\ \E i \in DOMAIN rlog : rlog[i].call = "emit"

\* the walk() and emit() calls of pass k of the while loop
PassCalls(k) == CallNames(SelectSeq(rlog, LAMBDA e : e.tick = k))

\* C24: with collect_interval <= 0 and emit_interval <= 0 every pass of the
\* while loop, the first one included, calls walk() once and then emit()
\* once before it sleeps.
C24_EveryTick ==
    (InLoop /\ collect_interval <= 0 /\ emit_interval <= 0) =>
        \A k \in 1..ticks :
            IF k < ticks \/ rpc = "sleep" THEN PassCalls(k) = <<"walk", "emit">>
            ELSE IF rpc = "test_walk" THEN PassCalls(k) = <<>>
            ELSE IF rpc = "test_emit" THEN PassCalls(k) = <<"walk">>
            ELSE PassCalls(k) \in {<<"walk">>, <<"walk", "emit">>}

\* two passes have called walk() and emit()
C24_Witness ==
    /\ InLoop /\ collect_interval <= 0 /\ emit_interval <= 0
    /\ ticks = 2
    /\ rpc = "sleep"
    /\ PassCalls(1) = <<"walk", "emit">>

\* C25: run_loop returns normally exactly when a KeyboardInterrupt left the
\* sleep, walk() or emit(); any other exception of a call ends the loop and
\* is raised to the caller.
C25_InterruptReturnsOthersRaise ==
    (InLoop /\ Len(rlog) > 1) =>
        /\ LastCall.out = "interrupted" <=> rpc = "loop_returned"
        /\ LastCall.out \notin {"returned", "interrupted"} <=> rpc = "loop_raised"

\* a KeyboardInterrupt left an emit() of the second pass
C25_Witness ==
    /\ InLoop
    /\ rpc = "loop_returned"
    /\ LastCall.call = "emit"
    /\ LastCall.tick = 2

\* C26 as claimed: when a walk() of the loop fails because start_run raises
\* the already-running error, run_loop keeps running.
C26_AsClaimed ==
    (InLoop /\ LastCall.call = "walk" /\ LastCall.out = "start_raised")
        => rpc \notin {"loop_raised", "loop_returned"}

\* ----------------------------------------------- walks of a scanned tree
\* One watcher with a configuration and a disk drawn at the start: root q
\* with the directories q/in and q/old below it.
ScanDirs == <<"q", "q/in", "q/old">>

\* root_directories: one root, two roots of which one lies in the other, two
\* roots side by side
ScanRoots == {<<"q">>, <<"q", "q/in">>, <<"q/old", "q/in">>}

\* skip_.*
SkipPattern == <<<<Lit("s"), Lit("k"), Lit("i"), Lit("p"), Lit("_"), AnyStar>>>>

\* p\.|x$
DotPattern == <<<<Lit("p"), Lit(".")>>, <<Lit("x"), AtEnd>>>>

\* old
OldPattern == <<<<Lit("o"), Lit("l"), Lit("d")>>>>

\* q$|in
RootPattern == <<<<Lit("q"), AtEnd>>, <<Lit("i"), Lit("n")>>>>

FilePatterns == {NoPattern, SkipPattern, DotPattern}
DirectoryPatterns == {NoPattern, OldPattern, RootPattern}

\* the filenames os.walk lists for a directory
Listings ==
    {<<>>, <<"keep.txt", "skip_me.txt">>, <<"skip_me.txt", "unskip_x", "keep.txt">>}

\* the files an external mover may have taken between listing and stat
GoneSets == SUBSET {<<"q", "keep.txt">>, <<"q", "unskip_x">>}

ScanDisks ==
    {[walk |-> [r \in {"q", "q/in", "q/old"} |->
                   IF r = "q" THEN ScanDirs ELSE <<r>>],
      files |-> f, gone |-> g, ctime |-> 0] :
        f \in {h \in [{"q", "q/in", "q/old"} -> Listings] :
                    Len(h["q/in"]) < 3 /\ Len(h["q/old"]) < 3},
        g \in GoneSets}

\* files, empty_dirs = self._walk_directories()
ScanDirectories ==
    /\ wpc = "idle"
    /\ walks < MaxWalks
    /\ metric_lines = <<>>
    /\ walks' = walks + 1
    /\ failed' = FALSE
    /\ scan' = _walk_directories(root_directories, disk, exclude_file_pattern,
                                 exclude_directory_pattern, now)
    /\ wpc' = "scanned"
    /\ outcome' = "none"
    /\ UNCHANGED <<files, runVars, oldest_file_row_age, metric_lines, histVars,
                   callVars, emitVars, loopVars, confVars, disk>>

\* the store is new, or holds the row of a file seen under q/old by a run
\* of an earlier configuration
InitScan ==
    /\ files \in {EmptyBag, SetToBag({Row("q/old", "keep.txt", 1, 1, 0, 0)})}
    /\ now = 1
    /\ last_run = 1
    /\ is_running = 0
    /\ max_is_running_age = 1
    /\ pc = [p \in Procs |-> "idle"]
    /\ rd = [p \in Procs |-> <<0, 0>>]
    /\ began = [p \in Procs |-> 0]
    /\ overrun = FALSE
    /\ oldest_file_row_age = DefaultOldestFileRowAge
    /\ InitWalk
    /\ InitHist
    /\ InitLoop
    /\ root_directories \in ScanRoots
    /\ exclude_file_pattern \in FilePatterns
    /\ exclude_directory_pattern \in DirectoryPatterns
    /\ treat_files_as_new \in BOOLEAN
    /\ disk \in ScanDisks

NextScan ==
    \/ ScanDirectories
    \/ WalkEnter
    \/ WalkSave
    \/ WalkCountLines
    \/ WalkSizeLines
    \/ WalkFileLines
    \/ WalkExitClean
    \/ WalkExitStop
    \/ Emit

SpecScan == InitScan /\ [][NextScan]_vars

\* ------------------------------------------------- claims on the scan
\* a walk has scanned the disk
Scanned == walks > 0

\* the directories the os.walk calls of the configured roots yield
Yielded == {Visits(root_directories, disk)[i] :
               i \in DOMAIN Visits(root_directories, disk)}

\* what re.search finds for the patterns and names of the model
ExcludedFiles ==
    IF exclude_file_pattern = SkipPattern THEN {"skip_me.txt", "unskip_x"}
    ELSE IF exclude_file_pattern = DotPattern THEN {"keep.txt", "unskip_x"}
    ELSE {}

ExcludedDirectories ==
    IF exclude_directory_pattern = OldPattern THEN {"q/old"}
    ELSE IF exclude_directory_pattern = RootPattern THEN {"q", "q/in"}
    ELSE {}

Listed(d) == {disk.files[d][i] : i \in DOMAIN disk.files[d]}

InSnapshot(d, f) ==
    \E i \in DOMAIN scan.files : scan.files[i].root = d /\ scan.files[i].filename = f

Marked(d) == \E i \in DOMAIN scan.empty_dirs : scan.empty_dirs[i].root = d

\* the root dimension of a queued line
RootOf(line) == line.dimensions[2]

\* C27 as claimed: a walk that has run its body has enqueued 3*D + 2*E
\* lines, for D directories with a non-removed file row and E directories
\* scanned as empty.
C27_AsClaimed ==
    (wpc \in {"exit", "cleaned"} /\ ~failed) =>
        LET D == Cardinality({r.root : r \in LiveRows(files)})
            E == Cardinality({d \in Yielded : Marked(d)})
        IN  Len(metric_lines) = 3 * D + 2 * E

\* C28: a listed file that is gone when its metadata is read is not in the
\* snapshot and the scan goes on: every listed file of the directory that
\* is neither excluded nor gone is in the snapshot.
C28_VanishedOmitted ==
    Scanned =>
        /\ outcome # "scan_raised"
        /\ \A d \in Yielded \ ExcludedDirectories : \A f \in Listed(d) :
              /\ <<d, f>> \in disk.gone => ~InSnapshot(d, f)
              /\ (<<d, f>> \notin disk.gone /\ f \notin ExcludedFiles)
                     => InSnapshot(d, f)

\* unskip_x is gone, keep.txt is listed after it and is in the snapshot
C28_Witness ==
    /\ Scanned
    /\ "q" \in Yielded \ ExcludedDirectories
    /\ disk.files["q"] = <<"skip_me.txt", "unskip_x", "keep.txt">>
    /\ disk.gone = {<<"q", "unskip_x">>}
    /\ exclude_file_pattern = NoPattern
    /\ InSnapshot("q", "keep.txt")
    /\ ~InSnapshot("q", "unskip_x")

C30_ExcludedDirectoryAbsent ==
    Scanned =>
        \A d \in ExcludedDirectories :
            /\ \A f \in {"keep.txt", "skip_me.txt", "unskip_x"} : ~InSnapshot(d, f)
            /\ ~Marked(d)
            /\ \A i \in DOMAIN metric_lines :
                  RootOf(metric_lines[i]) # "root=" \o d

\* q/old matches old and lists files, the store holds a row of q/old from
\* an earlier run, and the walk has enqueued its lines
C30_Witness ==
    /\ exclude_directory_pattern = OldPattern
    /\ "q/old" \in Yielded
    /\ disk.files["q/old"] # <<>>
    /\ \E r \in Rows(files) : r.root = "q/old" /\ r.removed = 1
    /\ wpc = "exit" /\ ~failed
    /\ metric_lines # <<>>

\* the listed files of d that pass the filename filter and are still there
Kept(d) == {f \in Listed(d) : f \notin ExcludedFiles /\ <<d, f>> \notin disk.gone}

\* the markers of d in the scan result
MarkersOf(d) == {i \in DOMAIN scan.empty_dirs : scan.empty_dirs[i].root = d}

\* the queued file-count lines of d with value 0
ZeroCountLines(d) ==
    {i \in DOMAIN metric_lines :
        /\ RootOf(metric_lines[i]) = "root=" \o d
        /\ metric_lines[i].guage_values = <<"directory.file.count=0">>}

\* C31 as claimed: every scanned directory that is not excluded and has no
\* file left after filtering has exactly one marker, with file_count 0, and
\* the walk enqueues a file-count line with value 0 for it.
C31_AsClaimed ==
    Scanned =>
        \A d \in Yielded \ ExcludedDirectories :
            Kept(d) = {} =>
                /\ Cardinality(MarkersOf(d)) = 1
                /\ \A i \in MarkersOf(d) : scan.empty_dirs[i].file_count = 0
                /\ (wpc \in {"counted", "sized"} \/ (wpc \in {"exit", "cleaned"} /\ ~failed))
                       => ZeroCountLines(d) # {}

\* C32 as claimed: a row inserted by the first walk of a store carries as
\* first_seen the first_seen of its scan record (the creation time with
\* treat_files_as_new, the scan time without) and as age_seconds its last_seen
\* minus that first_seen
ScanRecordsOf(r) ==
    {i \in DOMAIN scan.files : <<scan.files[i].root, scan.files[i].filename>> = KeyOf(r)}
C32_AsClaimed ==
    (walks = 1 /\ wpc = "saved" /\ ~failed) =>
        \A r \in Rows(files) :
            r.root # "q/old" =>
                \A i \in ScanRecordsOf(r) :
                    /\ r.first_seen = scan.files[i].first_seen
                    /\ r.age_seconds = r.last_seen - scan.files[i].first_seen

\* C33: within walk(), the files table changes and lines are enqueued only
\* while the run flag set by this walk's start_run is still set; the lines are
\* enqueued before the retention cleanup, the cleanup runs with the flag
\* set, and the flag is cleared only after the cleanup, by a step that
\* changes neither the table nor the queue.
C33_Enqueues == Len(metric_lines') > Len(metric_lines)
C33_GuardedOrder ==
    [][/\ (files' # files \/ C33_Enqueues)
            => (is_running = 1 /\ is_running' = 1 /\ last_run <= now
                /\ wpc \in {"guarded", "saved", "counted", "sized", "exit"})
       /\ C33_Enqueues => wpc \in {"saved", "counted", "sized"}
       /\ (wpc = "exit" /\ wpc' = "cleaned")
            => (files' = clean_oldest_files(files, oldest_file_row_age)
                /\ metric_lines' = metric_lines /\ is_running' = 1)
       /\ (is_running = 1 /\ is_running' = 0)
            => (wpc = "cleaned" /\ files' = files /\ metric_lines' = metric_lines)
      ]_vars

\* a walk has returned whose lines count a file of which its cleanup then
\* deleted the row
C33_Witness ==
    /\ wpc = "idle"
    /\ outcome = "returned"
    /\ is_running = 0
    /\ scan.files # <<>>
    /\ metric_lines # <<>>
    /\ files = EmptyBag

\* ------------------------------------------ a second store object is built
\* INSERT OR REPLACE INTO system (database_path, last_run, is_running,
\* created_at) VALUES (path, now, 0, now): the row of the same database_path
\* is replaced; the value is the pair (last_run, is_running) of the new row
_save_system_info(t) == <<t, 0>>

\* WatcherStore(database_path) by a process that holds no run: connect,
\* CREATE TABLE IF NOT EXISTS twice, _save_system_info
WatcherStoreInit(p) ==
    /\ pc[p] = "idle"
    /\ last_run' = _save_system_info(now)[1]
    /\ is_running' = _save_system_info(now)[2]
    /\ UNCHANGED <<files, now, max_is_running_age, pc, rd, began, overrun,
                   walkVars, histVars, callVars, emitVars, loopVars, confVars,
                   disk>>

NextOpen ==
    \/ \E p \in Procs : WatcherStoreInit(p)
    \/ \E p \in Procs : StartRead(p)
    \/ \E p \in Procs : StartCheck(p)
    \/ \E p \in Procs : StartWrite(p)
    \/ \E p \in Procs : stop_run(p)
    \/ \E p \in Procs : Recover(p)
    \/ \E p \in Procs : Crash(p)
    \/ Tick

SpecOpen == InitRunSpec /\ [][NextOpen]_vars

\* C34 as claimed: building a new store object while is_running is 1 and
\* last_run lies within the staleness window leaves is_running and last_run
\* as they were.
C34_AsClaimed ==
    [][\A p \in Procs :
          (/\ WatcherStoreInit(p)
           /\ is_running = 1
           /\ now - last_run <= max_is_running_age)
          => (is_running' = is_running /\ last_run' = last_run)]_vars

\* C35: a walk() whose start_run raises ends there: is_running stays set,
\* last_run, the files table and the queue stay as they were, and neither
\* the body nor the cleanup nor stop_run is run.
C35_StartRaised == wpc = "scanned" /\ outcome' = "start_raised"
C35_RaiseLeavesAll ==
    [][C35_StartRaised =>
          /\ is_running = 1
          /\ now - last_run <= max_is_running_age
          /\ is_running' = is_running
          /\ last_run' = last_run
          /\ files' = files
          /\ metric_lines' = metric_lines
          /\ wpc' = "idle"]_vars

\* a walk() has raised at start_run over a table that holds rows, and the
\* flag is still set
C35_Witness ==
    /\ wpc = "idle"
    /\ outcome = "start_raised"
    /\ is_running = 1
    /\ scan.files # <<>>
    /\ files # EmptyBag

\* C36: save_files keeps the first_seen of every row stored before the
\* call, keeps last_seen and age_seconds of every stored row whose key is
\* not in the snapshot, and gives a row that was marked removed and is in the
\* snapshot again removed=0 with its old first_seen and the age counted from
\* it.
C36_KeepsFirstSeen ==
    [][op' = "save_files" =>
        \A r \in Rows(files) :
            \E q \in Rows(files') :
                /\ KeyOf(q) = KeyOf(r)
                /\ q.first_seen = r.first_seen
                /\ KeyOf(r) \notin SnapshotKeys(saved')
                       => (q.last_seen = r.last_seen /\ q.age_seconds = r.age_seconds)
                /\ KeyOf(r) \in SnapshotKeys(saved')
                       => (q.removed = 0 /\ q.age_seconds = q.last_seen - r.first_seen)
    ]_vars

\* a file stored at time 1 and seen again at the last time: its row shows
\* the age from the first observation on, next to a row the last snapshot
\* left out
C36_Witness ==
    /\ op = "save_files"
    /\ \E r \in Rows(files) :
           /\ r.removed = 0
           /\ r.first_seen = 1
           /\ r.last_seen = MaxTime
           /\ r.age_seconds = MaxTime - 1
    /\ \E r \in Rows(files) : r.removed = 1 /\ KeyOf(r) \notin SnapshotKeys(saved)

\* C37 as claimed: every File that get_oldest_files returns has the root,
\* filename, first_seen, last_seen and age_seconds of a stored row.
C37_AsClaimed ==
    op = "get_oldest_files" =>
        \A i \in DOMAIN result :
            \E r \in Rows(files) :
                /\ KeyOf(r) = KeyOf(result[i])
                /\ r.first_seen = result[i].first_seen
                /\ r.last_seen = result[i].last_seen
                /\ r.age_seconds = result[i].age_seconds

\* the snapshot of a later scan that meets the same files at time t
Rescan(fs, t) == [i \in DOMAIN fs |-> File(fs[i].root, fs[i].filename, t)]

\* C38 as claimed: across the retention cleanup that ends a walk cycle, the
\* age_seconds the next cycle stores for a file that is still present is not
\* less than the age_seconds this cycle stored for it.
C38_AsClaimed ==
    [][(wpc = "exit" /\ wpc' = "cleaned" /\ ~failed) =>
          \A r \in Rows(files) :
              KeyOf(r) \in SnapshotKeys(scan.files) =>
                  \E q \in Rows(save_files(files', Rescan(scan.files, now + 1))) :
                      /\ KeyOf(q) = KeyOf(r)
                      /\ q.age_seconds >= r.age_seconds]_vars

\* --------------------------------------------- emit() with any batch size
\* passes of the while loop of one emit() call that are followed
MaxPasses == 3

\* the batch sizes a caller may pass: an int, positive or not
BatchSizes == (0 - 1)..MaxBatch

\* one more pass of the while loop of emit() begins
EmitPass ==
    /\ Len(calls["stdout"]) < MaxPasses
    /\ EmitGetLines

NextEmitAny ==
    \/ \E m \in MetricInputs : AddLine(m)
    \/ \E bs \in BatchSizes : EmitCall(bs)
    \/ EmitPass
    \/ ToStdout
    \/ ToFile
    \/ ToTelegraf
    \/ EmitReturn

SpecEmitAny == InitEmitSpec /\ [][NextEmitAny]_vars

\* C39 as claimed: emit(batch_size) terminates for every integer batch_size
\* when the queue is not empty; the loop ends only when the queue is empty, so
\* every pass of the loop leaves the queue shorter than it found it.
C39_AsClaimed ==
    [][(epc = "loop" /\ epc' = "stdout")
          => Len(metric_lines') < Len(metric_lines)]_vars

\* C40 as claimed: with no static dimensions configured, no dimension of a
\* line that walk() enqueues is empty and the line renders as
\* "<metric_name>,root=<dir> <gauge>=<n> <ts>".
C40_AsClaimed ==
    \A i \in DOMAIN metric_lines :
        LET m == metric_lines[i]
        IN  /\ \A k \in DOMAIN m.dimensions : m.dimensions[k] # ""
            /\ RenderLine(m) = m.metric_name \o "," \o RootOf(m) \o " "
                                   \o Join(m.guage_values, ",") \o " "
                                   \o ToString(m.timestamp)

====
